---- MODULE Spec2Model ----
(***************************************************************************)
(* Double Vision: the device-connection and monitoring pipeline.           *)
(*   CameraManager      src/src/cameraManager.ts                           *)
(*   MonitoringService  src/src/monitoringService.ts (lines 1-191)         *)
(*   activate()         src/src/monitoringService.ts (lines 199-300)       *)
(*   CameraViewProvider src/unnamed/part_001                               *)
(* Every await of the TypeScript code is a suspension point: an async      *)
(* method is one action up to its first await and one action per           *)
(* continuation.  Awaited network calls are kept as records of the calls   *)
(* in flight.  The timer is the runtime's: its callback may run whenever   *)
(* the interval is set.  processAnalysis (notifications, documents) reads  *)
(* the analysis text and changes no field of the scheduler.                *)
(*                                                                         *)
(* Three specifications share the variables, Init and the actions:         *)
(*   SpecConn  the connection manager, its sockets and subscribers         *)
(*   SpecMon   the scheduler: both triggers, stop, disconnect, the clock   *)
(*   SpecHist  the scheduler's history, eleven analyses deep               *)
(***************************************************************************)
EXTENDS Integers, Sequences, FiniteSets, TLC

VARIABLES
    connected,        \* CameraManager.connected
    ipAddress,        \* CameraManager.ipAddress
    port,             \* CameraManager.port
    ws,               \* CameraManager.ws: index into sockets, 0 = undefined
    onImageReceived,  \* CameraManager.onImageReceived: the one subscriber
    sockets,          \* every WebSocket created so far, in creation order
    probes,           \* connect() calls awaiting their GET /status
    nConnects,        \* number of connect() calls made
    connectError,     \* what the connect() that completed last threw
    probed,           \* hosts a GET /status was issued to so far
    built,            \* components constructed so far
    activated,        \* TRUE when the components were wired by activate()
    registered,       \* subscribers passed to setImageCallback, in order
    lastFanout,       \* subscribers the latest pushed frame was handed to
    escaped,          \* a subscriber's exception left the 'message' handler
    lastPayload,      \* data of the latest Snapshot handed to a subscriber
    isMonitoring,     \* MonitoringService.isMonitoring
    monitoringInterval, \* MonitoringService.monitoringInterval is defined
    timers,           \* number of live setInterval timers of the scheduler
    lastSnapshot,     \* MonitoringService.lastSnapshot
    analysisHistory,  \* MonitoringService.analysisHistory
    tasks,            \* monitoring cycles suspended at an await
    nTasks,           \* number of cycles that reached a network call
    completed,        \* texts of the successful analyses, in completion order
    snapshotResult,   \* outcome of the latest on-demand takeSnapshot()
    commandResult,    \* outcome of the latest sendCommand()
    startResult,      \* the latest start() resolved or threw
    queried,          \* what the queries of the scheduler returned last
    processing,       \* processAnalysis() under way
    provider,         \* AIProvider.provider
    apiKey,           \* AIProvider.apiKey
    aiCalls,          \* backend calls awaiting the reply to their POST
    nAICalls,         \* analyzeImage()/generateLVGLCode() calls made so far
    posts,            \* HTTP requests issued by the AIProvider so far
    aiDone,           \* the calls that are over, each with its outcome
    now               \* wall clock (ms), read by new Date()

vars == <<connected, ipAddress, port, ws, onImageReceived, sockets, probes,
          nConnects, connectError, probed, built, activated, registered,
          lastFanout, escaped, lastPayload, isMonitoring, monitoringInterval,
          timers, lastSnapshot, analysisHistory, tasks, nTasks, completed,
          snapshotResult, commandResult, startResult, queried, processing,
          provider, apiKey, aiCalls, nAICalls, posts, aiDone, now>>

connVars == <<connected, ipAddress, port, ws, sockets, probes, nConnects,
              connectError>>
wiringVars == <<onImageReceived, built, activated, registered>>
monVars == <<isMonitoring, monitoringInterval, timers, lastSnapshot,
             analysisHistory, tasks, nTasks, completed>>
aiVars == <<provider, apiKey, aiCalls, nAICalls, posts, aiDone>>

----------------------------------------------------------------------------
(* Bounds of the model. *)
MaxConnects == 2     \* connect() calls per behaviour (SpecConn)
MaxTasks == 1        \* on-demand captures per behaviour (SpecConn)
MaxInFlight == 2     \* calls suspended at an await at a time (SpecConn, SpecMon)
MaxTicks == 2        \* clock steps per behaviour (SpecMon)
MaxMonConnects == 1  \* connect() calls per behaviour (SpecMon)
MaxCycles == 2       \* monitoring cycles per behaviour (SpecMon)
MaxAnalyses == 11    \* monitoring cycles per behaviour (SpecHist)
MaxFailures == 1     \* failed captures and analyses per behaviour (SpecHist)
MaxOverlap == 1      \* cycles suspended at an await at a time (SpecHist)
MaxAICalls == 2      \* calls of the AIProvider per behaviour (SpecAI)
MaxOps == 2          \* captures and commands per behaviour (SpecOps)
MaxQueryCycles == 2  \* monitoring cycles per behaviour (SpecQuery)
MaxReturned == 3     \* length of a list a collaborator holds (SpecQuery)
MaxWords == 2        \* words of an analysis text (SpecKeywords)
MaxResumeCycles == 2 \* monitoring cycles per behaviour (SpecResume)

(* Program constants. *)
DefaultPort == 80
HistoryCap == 10
DebounceMs == 2000

----------------------------------------------------------------------------
(* Host strings.  TLC cannot take a string apart, so each host the model   *)
(* uses is paired with its characters.                                     *)
HostChars ==
    [h \in {"10.0.0.5", "999.1.1.1", "esp32.local", "192.168.1.100"} |->
        CASE h = "10.0.0.5" -> <<"1","0",".","0",".","0",".","5">>
          [] h = "999.1.1.1" -> <<"9","9","9",".","1",".","1",".","1">>
          [] h = "esp32.local" ->
                <<"e","s","p","3","2",".","l","o","c","a","l">>
          [] h = "192.168.1.100" ->
                <<"1","9","2",".","1","6","8",".","1",".","1","0","0">>]

DefaultIP == "192.168.1.100"
Hosts == {"10.0.0.5", "999.1.1.1", "esp32.local"}
Ports == {DefaultPort, 8080}

Digits == {"0","1","2","3","4","5","6","7","8","9"}

(* 25[0-5] | 2[0-4][0-9] | [01]?[0-9][0-9]?  on a sequence of characters *)
IsOctet(cs) ==
    /\ Len(cs) \in 1..3
    /\ \A i \in 1..Len(cs) : cs[i] \in Digits
    /\ Len(cs) = 3 =>
          \/ cs[1] \in {"0","1"}
          \/ cs[1] = "2" /\ cs[2] \in {"0","1","2","3","4"}
          \/ cs[1] = "2" /\ cs[2] = "5" /\ cs[3] \in {"0","1","2","3","4","5"}

(* positions of the dots of a character sequence, ascending *)
DotPositions(cs) == {i \in 1..Len(cs) : cs[i] = "."}

(* ^(octet\.){3}octet$ : exactly three dots, an octet in each of the four  *)
(* fields they delimit.                                                    *)
IsDottedQuad(cs) ==
    LET dots == DotPositions(cs)
        Field(lo, hi) == SubSeq(cs, lo, hi)
    IN  /\ Cardinality(dots) = 3
        /\ \E d1, d2, d3 \in dots :
              /\ d1 < d2 /\ d2 < d3
              /\ IsOctet(Field(1, d1 - 1))
              /\ IsOctet(Field(d1 + 1, d2 - 1))
              /\ IsOctet(Field(d2 + 1, d3 - 1))
              /\ IsOctet(Field(d3 + 1, Len(cs)))

(* the validateInput callback of the connectCamera command *)
ValidIP(h) == IsDottedQuad(HostChars[h])

(* Hosts that can answer GET /status: a probe of any other host fails. *)
Reachable == {"10.0.0.5", "esp32.local"}

(* new WebSocket(url) throws on a URL it cannot parse. *)
WebSocketThrows(h) == h = "999.1.1.1"

----------------------------------------------------------------------------
NoError == [host |-> "", port |-> 0]
NoSnapshot == [ts |-> -1]
NoQueries ==
    [history |-> <<>>, shared |-> FALSE, last |-> NoSnapshot, active |-> FALSE]
NoProcessing ==
    [stage |-> "idle", text |-> <<>>, warning |-> FALSE, issues |-> {}]

(* defaults of the configuration keys ai.provider and ai.apiKey *)
DefaultProvider == "github-copilot"
NoKey == ""

(* values of ai.provider ("azure" for any value the switch does not name)  *)
(* and of ai.apiKey                                                        *)
Providers == {DefaultProvider, "openai", "anthropic", "google", "azure"}
Keys == {NoKey, "sk-1"}

(* snapshot contents and interface descriptions handed to the AIProvider *)
Images == {"frameA", "frameB"}
Descriptions == {"a button"}

(* new AIProvider() under the configuration (p, k) *)
NewAIProvider(p, k) ==
    /\ provider = p
    /\ apiKey = k
    /\ aiCalls = {}
    /\ nAICalls = 0
    /\ posts = <<>>
    /\ aiDone = {}

InitDevice ==
    /\ connected = FALSE
    /\ ipAddress = ""
    /\ port = DefaultPort
    /\ ws = 0
    /\ onImageReceived = "none"
    /\ sockets = <<>>
    /\ probes = {}
    /\ nConnects = 0
    /\ connectError = NoError
    /\ probed = {}
    /\ built = {}
    /\ activated = FALSE
    /\ registered = <<>>
    /\ lastFanout = <<>>
    /\ escaped = FALSE
    /\ lastPayload = "none"
    /\ isMonitoring = FALSE
    /\ monitoringInterval = FALSE
    /\ timers = 0
    /\ lastSnapshot = NoSnapshot
    /\ analysisHistory = <<>>
    /\ tasks = {}
    /\ nTasks = 0
    /\ completed = <<>>
    /\ snapshotResult = "none"
    /\ commandResult = "none"
    /\ startResult = "none"
    /\ queried = NoQueries
    /\ processing = NoProcessing
    /\ now = 0

(* the extension under the default configuration *)
Init == InitDevice /\ NewAIProvider(DefaultProvider, NoKey)

(* the AIProvider under every configuration *)
InitAI == InitDevice /\ \E p \in Providers, k \in Keys : NewAIProvider(p, k)

----------------------------------------------------------------------------
(* CameraManager *)

(* connect(), up to the await of axios.get: stores host and port, issues   *)
(* the probe.                                                              *)
ConnectBegin(h, p) ==
    /\ nConnects < MaxConnects
    /\ nConnects' = nConnects + 1
    /\ ipAddress' = h
    /\ port' = p
    /\ probes' = probes \cup {[call |-> nConnects + 1, host |-> h, port |-> p]}
    /\ probed' = probed \cup {h}
    /\ UNCHANGED <<connected, ws, sockets, connectError>>

(* setupWebSocketConnection(): a new socket to the host and port the       *)
(* fields hold now; the socket this.ws referred to is left as it is.       *)
SetupWebSocket ==
    IF WebSocketThrows(ipAddress)
    THEN UNCHANGED <<ws, sockets>>
    ELSE /\ sockets' = Append(sockets, [state |-> "connecting"])
         /\ ws' = Len(sockets) + 1

(* connect(), continuation after the probe: status 200, another status     *)
(* axios lets through ("other"), or a rejected request ("fail").           *)
ProbeReturn(c, outcome) ==
    /\ c \in probes
    /\ outcome = "200" => c.host \in Reachable
    /\ probes' = probes \ {c}
    /\ IF outcome = "200"
       THEN /\ connected' = TRUE
            /\ SetupWebSocket
            /\ connectError' = NoError
       ELSE /\ connected' = FALSE
            /\ connectError' = [host |-> c.host, port |-> port]
            /\ UNCHANGED <<ws, sockets>>
    /\ UNCHANGED <<ipAddress, port, nConnects, probed>>

(* the command double-vision.connectCamera: the input box accepts only a   *)
(* dotted quad.                                                            *)
ConnectCommand(h, p) ==
    /\ activated
    /\ ValidIP(h)
    /\ ConnectBegin(h, p)
    /\ UNCHANGED <<wiringVars, monVars, lastFanout, escaped, lastPayload,
                   snapshotResult, commandResult, startResult, queried,
                   processing, now, aiVars>>

(* CameraManager.connect called directly *)
Connect(h, p) ==
    /\ built # {}
    /\ ~activated
    /\ ConnectBegin(h, p)
    /\ UNCHANGED <<wiringVars, monVars, lastFanout, escaped, lastPayload,
                   snapshotResult, commandResult, startResult, queried,
                   processing, now, aiVars>>

ProbeDone(c, outcome) ==
    /\ ProbeReturn(c, outcome)
    /\ UNCHANGED <<wiringVars, monVars, lastFanout, escaped, lastPayload,
                   snapshotResult, commandResult, startResult, queried,
                   processing, now, aiVars>>

(* a probe issued without a timeout option: no timer ends it *)
ProbeTimeout_Never(c) == FALSE /\ ProbeDone(c, "fail")

(* the probe's timeout of 5000 ms expires and axios rejects the request *)
ProbeTimeout(c) == ProbeDone(c, "fail")

CloseSocket(s) ==
    [sockets EXCEPT ![s].state =
        IF @ \in {"connecting", "open", "stalled"} THEN "closing" ELSE @]

Disconnect ==
    /\ built # {}
    /\ IF ws # 0
       THEN sockets' = CloseSocket(ws)
       ELSE UNCHANGED sockets
    /\ ws' = 0
    /\ connected' = FALSE
    /\ UNCHANGED <<ipAddress, port, probes, nConnects, connectError, probed,
                   wiringVars, monVars, lastFanout, escaped, lastPayload,
                   snapshotResult, commandResult, startResult, queried,
                   processing, now, aiVars>>

(* an 'open' handler that marks the manager connected *)
WsOpen_Connects(s) ==
    /\ s \in 1..Len(sockets)
    /\ sockets[s].state = "connecting"
    /\ sockets' = [sockets EXCEPT ![s].state = "open"]
    /\ connected' = TRUE
    /\ UNCHANGED <<ipAddress, port, ws, probes, nConnects, connectError,
                   probed, wiringVars, monVars, lastFanout, escaped,
                   lastPayload, snapshotResult, commandResult, startResult,
                   queried, processing, now, aiVars>>

(* the streaming link's 'open' event *)
WsOpen(s) ==
    /\ s \in 1..Len(sockets)
    /\ sockets[s].state = "connecting"
    /\ sockets' = [sockets EXCEPT ![s].state = "open"]
    /\ UNCHANGED <<connected, ipAddress, port, ws, probes, nConnects,
                   connectError, probed, wiringVars, monVars, lastFanout,
                   escaped, lastPayload, snapshotResult, commandResult,
                   startResult, queried, processing, now, aiVars>>

(* the 'error' handler; the library emits 'close' after it *)
WsError(s) ==
    /\ s \in 1..Len(sockets)
    /\ sockets[s].state \in {"connecting", "open", "stalled"}
    /\ sockets' = [sockets EXCEPT ![s].state = "errored"]
    /\ connected' = FALSE
    /\ UNCHANGED <<ipAddress, port, ws, probes, nConnects, connectError,
                   probed, wiringVars, monVars, lastFanout, escaped,
                   lastPayload, snapshotResult, commandResult, startResult,
                   queried, processing, now, aiVars>>

(* the 'close' handler: the peer closed, or close() or an error came first *)
WsClose(s) ==
    /\ s \in 1..Len(sockets)
    /\ sockets[s].state \in {"open", "stalled", "closing", "errored"}
    /\ sockets' = [sockets EXCEPT ![s].state = "closed"]
    /\ connected' = FALSE
    /\ UNCHANGED <<ipAddress, port, ws, probes, nConnects, connectError,
                   probed, wiringVars, monVars, lastFanout, escaped,
                   lastPayload, snapshotResult, commandResult, startResult,
                   queried, processing, now, aiVars>>

----------------------------------------------------------------------------
(* MonitoringService *)

Task(origin, stage, ts) ==
    [id |-> nTasks + 1, origin |-> origin, stage |-> stage, ts |-> ts]

(* analyzeSnapshot(snapshot), up to the await of                            *)
(* aiProvider.analyzeImage(snapshot): the cycle t awaits the backend with  *)
(* the snapshot stamped ts                                                 *)
AnalyzeBegin(t, ts) ==
    tasks' = {x \in tasks : x.id # t.id} \cup
                {[t EXCEPT !.stage = "analyze", !.ts = ts]}

(* the debounce test with <= in place of < *)
Debounced_Inclusive(ts) ==
    lastSnapshot # NoSnapshot /\ ts - lastSnapshot.ts <= DebounceMs

(* the debounce test of handleNewSnapshot *)
Debounced(ts) ==
    lastSnapshot # NoSnapshot /\ ts - lastSnapshot.ts < DebounceMs

(* handleNewSnapshot without its isMonitoring test *)
PushAnalyzes_Unguarded(ts) == ~Debounced(ts)

(* handleNewSnapshot(snapshot) starts an analysis *)
PushAnalyzes(ts) == isMonitoring /\ ~Debounced(ts)

HandleNewSnapshot(ts) ==
    IF PushAnalyzes(ts)
    THEN /\ AnalyzeBegin(Task("push", "new", ts), ts)
         /\ nTasks' = nTasks + 1
         /\ UNCHANGED <<isMonitoring, monitoringInterval, timers, lastSnapshot,
                        analysisHistory, completed>>
    ELSE UNCHANGED monVars

(* what a message on the streaming link can carry: a binary JPEG frame, a  *)
(* text message, a binary frame of no bytes                                *)
Payloads == {"jpeg", "text", "empty"}

(* the subscribers whose callback runs inside the 'message' handler and    *)
(* can throw there: updateCameraFeed() of the view. The scheduler's        *)
(* callback calls an async function, whose failure is a rejected promise.  *)
SyncSubscribers == {"view"}

(* the subscribers a pushed frame is handed to *)
Fanout(cb) == IF cb = "none" THEN <<>> ELSE <<cb>>

(* the 'message' handler: wraps the frame, calls the subscriber *)
OnMessage(s, data, throws) ==
    /\ s \in 1..Len(sockets)
    /\ sockets[s].state = "open"
    /\ throws => onImageReceived \in SyncSubscribers
    /\ lastFanout' = Fanout(onImageReceived)
    /\ lastPayload' = IF onImageReceived = "none" THEN lastPayload ELSE data
    /\ IF onImageReceived = "monitoring"
       THEN HandleNewSnapshot(now)
       ELSE UNCHANGED monVars
    /\ IF throws
       THEN /\ escaped' = TRUE
            /\ \/ UNCHANGED sockets
               \/ sockets' = [sockets EXCEPT ![s].state = "stalled"]
       ELSE UNCHANGED <<escaped, sockets>>
    /\ UNCHANGED <<connected, ipAddress, port, ws, probes, nConnects,
                   connectError, probed, wiringVars, snapshotResult,
                   commandResult, startResult, queried, processing, now,
                   aiVars>>

(* a binary JPEG frame arrives and the subscriber returns normally *)
WsMessage(s) == OnMessage(s, "jpeg", FALSE)

(* start() without its test of cameraManager.isConnected() *)
StartOutcome_NoConnectedTest == IF isMonitoring THEN "noop" ELSE "started"

(* start() without its test of isMonitoring *)
StartOutcome_NoActiveTest == IF ~connected THEN "NotConnected" ELSE "started"

(* the branch start() takes: return, throw 'Camera not connected', or go on *)
StartOutcome ==
    IF isMonitoring THEN "noop"
    ELSE IF ~connected THEN "NotConnected"
    ELSE "started"

(* start() *)
Start ==
    /\ "monitoring" \in built
    /\ startResult' = IF StartOutcome = "NotConnected"
                      THEN "NotConnected" ELSE "resolved"
    /\ IF StartOutcome = "started"
       THEN /\ isMonitoring' = TRUE
            /\ monitoringInterval' = TRUE
            /\ timers' = timers + 1
       ELSE UNCHANGED <<isMonitoring, monitoringInterval, timers>>
    /\ UNCHANGED <<connVars, probed, wiringVars, lastFanout, escaped,
                   lastPayload, lastSnapshot, analysisHistory, tasks, nTasks,
                   completed, snapshotResult, commandResult, queried,
                   processing, now, aiVars>>

(* stop() *)
Stop ==
    /\ "monitoring" \in built
    /\ isMonitoring' = FALSE
    /\ IF monitoringInterval
       THEN /\ timers' = timers - 1
            /\ monitoringInterval' = FALSE
       ELSE UNCHANGED <<monitoringInterval, timers>>
    /\ UNCHANGED <<connVars, probed, wiringVars, lastFanout, escaped,
                   lastPayload, lastSnapshot, analysisHistory, tasks, nTasks,
                   completed, snapshotResult, commandResult, startResult,
                   queried, processing, now, aiVars>>

(* takeSnapshot(), up to the await of axios.get *)
CaptureBegin(origin) ==
    /\ tasks' = tasks \cup {Task(origin, "capture", -1)}
    /\ nTasks' = nTasks + 1

(* performMonitoringCycle() without its test of isConnected() *)
CycleAllowed_NoConnectedTest == isMonitoring

(* the test performMonitoringCycle() goes on after *)
CycleAllowed == isMonitoring /\ connected

(* the setInterval callback: performMonitoringCycle() up to its first await *)
TimerTick ==
    /\ timers > 0
    /\ IF CycleAllowed
       THEN CaptureBegin("timer")
       ELSE UNCHANGED <<tasks, nTasks>>
    /\ UNCHANGED <<connVars, probed, wiringVars, lastFanout, escaped,
                   lastPayload, isMonitoring, monitoringInterval, timers,
                   lastSnapshot, analysisHistory, completed, snapshotResult,
                   commandResult, startResult, queried, processing, now,
                   aiVars>>

(* takeSnapshot() called on demand (command, webview button) *)
TakeSnapshot ==
    /\ built # {}
    /\ IF connected
       THEN /\ CaptureBegin("command")
            /\ UNCHANGED snapshotResult
       ELSE /\ snapshotResult' = "NotConnected"
            /\ UNCHANGED <<tasks, nTasks>>
    /\ UNCHANGED <<connVars, probed, wiringVars, lastFanout, escaped,
                   lastPayload, isMonitoring, monitoringInterval, timers,
                   lastSnapshot, analysisHistory, completed, commandResult,
                   startResult, queried, processing, now, aiVars>>

(* performMonitoringCycle() applying the debounce test of the push path *)
TimerAnalyzes_Debounced(ts) == ~Debounced(ts)

(* performMonitoringCycle() hands every captured snapshot to               *)
(* analyzeSnapshot(), whatever its timestamp                               *)
TimerAnalyzes(ts) == TRUE

(* a catch block that marks the manager disconnected, as connect()'s does *)
RequestFailed_Disconnects ==
    /\ connected' = FALSE
    /\ UNCHANGED <<ipAddress, port, ws, sockets, probes, nConnects,
                   connectError>>

(* the catch blocks of takeSnapshot() and sendCommand(): they rethrow and  *)
(* assign nothing                                                          *)
RequestFailed == UNCHANGED connVars

(* what takeSnapshot() resolves with: Buffer.from(response.data) of any    *)
(* 2xx response is wrapped, an empty body included                         *)
CaptureBodies == {"Snapshot", "EmptySnapshot"}

(* the capture request returns: takeSnapshot() resolves with a Snapshot    *)
(* stamped new Date(), or rejects                                          *)
CaptureReturn(t, ok) ==
    /\ t \in tasks
    /\ t.stage = "capture"
    /\ IF t.origin = "timer"
       THEN /\ IF ok /\ TimerAnalyzes(now)
               THEN AnalyzeBegin(t, now)
               ELSE tasks' = tasks \ {t}
            /\ UNCHANGED snapshotResult
       ELSE /\ tasks' = tasks \ {t}
            /\ IF ok
               THEN snapshotResult' \in CaptureBodies
               ELSE snapshotResult' = "CaptureFailed"
    /\ IF ok THEN UNCHANGED connVars ELSE RequestFailed
    /\ UNCHANGED <<probed, wiringVars, lastFanout, escaped, lastPayload,
                   isMonitoring, monitoringInterval, timers, lastSnapshot,
                   analysisHistory, nTasks, completed, commandResult,
                   startResult, queried, processing, now, aiVars>>

(* sendCommand() without its test of this.connected *)
CommandAllowed_Unchecked == TRUE

(* if (!this.connected) throw new Error('Camera not connected') *)
CommandAllowed == connected

(* sendCommand(command, params), up to the await of axios.post *)
SendCommand ==
    /\ built # {}
    /\ IF CommandAllowed
       THEN /\ tasks' = tasks \cup {Task("sendCommand", "command", -1)}
            /\ nTasks' = nTasks + 1
            /\ UNCHANGED commandResult
       ELSE /\ commandResult' = "NotConnected"
            /\ UNCHANGED <<tasks, nTasks>>
    /\ UNCHANGED <<connVars, probed, wiringVars, lastFanout, escaped,
                   lastPayload, isMonitoring, monitoringInterval, timers,
                   lastSnapshot, analysisHistory, completed, snapshotResult,
                   startResult, queried, processing, now, aiVars>>

(* the command request returns: sendCommand() resolves with response.data  *)
(* or its catch block throws 'Failed to send command'                      *)
CommandReturn(t, ok) ==
    /\ t \in tasks
    /\ t.stage = "command"
    /\ tasks' = tasks \ {t}
    /\ commandResult' = IF ok THEN "response" ELSE "CommandFailed"
    /\ IF ok THEN UNCHANGED connVars ELSE RequestFailed
    /\ UNCHANGED <<probed, wiringVars, lastFanout, escaped, lastPayload,
                   isMonitoring, monitoringInterval, timers, lastSnapshot,
                   analysisHistory, nTasks, completed, snapshotResult,
                   startResult, queried, processing, now, aiVars>>

(* the history with the eviction left out *)
PushHistory_NoEvict(h, text) == Append(h, text)

(* the history evicting the newest record (pop) instead of the oldest *)
PushHistory_Pop(h, text) ==
    LET h2 == Append(h, text)
    IN  IF Len(h2) > HistoryCap THEN SubSeq(h2, 1, Len(h2) - 1) ELSE h2

(* analysisHistory.push(analysis); if (length > 10) shift() *)
PushHistory(h, text) ==
    LET h2 == Append(h, text)
    IN  IF Len(h2) > HistoryCap THEN Tail(h2) ELSE h2

(* analyzeSnapshot() assigning lastSnapshot before awaiting the backend *)
AnalysisFailed_SnapshotKept(t) ==
    /\ lastSnapshot' = [ts |-> t.ts]
    /\ UNCHANGED <<analysisHistory, completed>>

(* the catch block of analyzeSnapshot(): console.error, nothing else *)
AnalysisFailed(t) == UNCHANGED <<lastSnapshot, analysisHistory, completed>>

(* analyzeSnapshot(), continuation after the backend call: the reply to    *)
(* the request of cycle t.id is the text t.id                              *)
AnalyzeReturn(t, ok) ==
    /\ t \in tasks
    /\ t.stage = "analyze"
    /\ tasks' = tasks \ {t}
    /\ IF ok
       THEN /\ lastSnapshot' = [ts |-> t.ts]
            /\ analysisHistory' = PushHistory(analysisHistory, t.id)
            /\ completed' = Append(completed, t.id)
       ELSE AnalysisFailed(t)
    /\ UNCHANGED <<connVars, probed, wiringVars, lastFanout, escaped,
                   lastPayload, isMonitoring, monitoringInterval, timers,
                   nTasks, snapshotResult, commandResult, startResult, queried,
                   processing, now, aiVars>>

(* Analysis texts are sequences of characters. CasePairs lists the upper-  *)
(* and lower-case form of each letter the vocabulary uses.                 *)
CasePairs ==
    {<<"A", "a">>, <<"B", "b">>, <<"C", "c">>, <<"D", "d">>, <<"E", "e">>,
     <<"F", "f">>, <<"G", "g">>, <<"L", "l">>, <<"M", "m">>, <<"N", "n">>,
     <<"O", "o">>, <<"P", "p">>, <<"R", "r">>, <<"S", "s">>, <<"T", "t">>,
     <<"V", "v">>, <<"W", "w">>, <<"Y", "y">>}

(* String.prototype.toLowerCase() *)
ToLowerCase(text) ==
    [i \in 1..Len(text) |->
        IF \E p \in CasePairs : p[1] = text[i]
        THEN (CHOOSE p \in CasePairs : p[1] = text[i])[2]
        ELSE text[i]]

(* String.prototype.includes(): keyword occurs in text, character for      *)
(* character                                                               *)
Includes(text, keyword) ==
    \E i \in 0..(Len(text) - Len(keyword)) :
        SubSeq(text, i + 1, i + Len(keyword)) = keyword

(* the keywords of processAnalysis() and checkLVGLIssues() *)
KwError == <<"e", "r", "r", "o", "r">>
KwProblem == <<"p", "r", "o", "b", "l", "e", "m">>
KwLvgl == <<"l", "v", "g", "l">>
KwWidget == <<"w", "i", "d", "g", "e", "t">>
KwMemory == <<"m", "e", "m", "o", "r", "y">>
KwPerformance ==
    <<"p", "e", "r", "f", "o", "r", "m", "a", "n", "c", "e">>
KwStyle == <<"s", "t", "y", "l", "e">>

(* words a backend's reply is made of, and the replies of at most MaxWords *)
(* words                                                                   *)
Words ==
    {KwError, <<"E", "r", "r", "o", "r">>,
     <<"P", "R", "O", "B", "L", "E", "M">>,
     KwLvgl, <<"L", "V", "G", "L">>, KwWidget,
     KwMemory, <<"M", "e", "m", "o", "r", "y">>,
     <<"P", "e", "r", "f", "o", "r", "m", "a", "n", "c", "e">>,
     <<"S", "T", "Y", "L", "E">>, <<"o", "k">>}

RECURSIVE TextsOf(_)
TextsOf(n) ==
    IF n = 0 THEN {<<>>}
    ELSE TextsOf(n - 1)
             \cup {t \o <<" ">> \o w : t \in TextsOf(n - 1) \ {<<>>}, w \in Words}
             \cup (IF n = 1 THEN Words ELSE {})

Texts == TextsOf(MaxWords)

(* everything processAnalysis() leaves alone *)
outsideProcessing ==
    <<connVars, probed, wiringVars, monVars, lastFanout, escaped,
      lastPayload, snapshotResult, commandResult, startResult, queried, now,
      aiVars>>

(* the condition of the warning prompt *)
WarningTrigger(analysis) ==
    LET lowerAnalysis == ToLowerCase(analysis)
    IN  Includes(lowerAnalysis, KwError) \/ Includes(lowerAnalysis, KwProblem)

(* the condition of the LVGL pass *)
LvglTrigger(analysis) ==
    LET lowerAnalysis == ToLowerCase(analysis)
    IN  Includes(lowerAnalysis, KwLvgl) \/ Includes(lowerAnalysis, KwWidget)

(* processAnalysis() up to its first await: the warning prompt is shown    *)
(* and awaited, or the function goes on to the LVGL test                   *)
ProcessAnalysis(analysis) ==
    /\ processing.stage = "idle"
    /\ processing' =
          [stage |-> IF WarningTrigger(analysis) THEN "warning"
                     ELSE IF LvglTrigger(analysis) THEN "lvgl" ELSE "notify",
           text |-> analysis,
           warning |-> WarningTrigger(analysis),
           issues |-> {}]
    /\ UNCHANGED outsideProcessing

(* the user answers or dismisses the warning prompt *)
WarningAnswered ==
    /\ processing.stage = "warning"
    /\ processing' =
          [processing EXCEPT
              !.stage = IF LvglTrigger(processing.text) THEN "lvgl"
                        ELSE "notify"]
    /\ UNCHANGED outsideProcessing

(* checkLVGLIssues(): the advisories pushed for the text *)
LvglIssues(analysis) ==
    {k \in {KwMemory, KwPerformance, KwStyle} : Includes(analysis, k)}

CheckLVGLIssues ==
    /\ processing.stage = "lvgl"
    /\ processing' =
          [processing EXCEPT !.stage = "notify",
                             !.issues = LvglIssues(processing.text)]
    /\ UNCHANGED outsideProcessing

(* notifyAnalysisUpdate(), the end of processAnalysis() *)
NotifyAnalysisUpdate ==
    /\ processing.stage = "notify"
    /\ processing' = NoProcessing
    /\ UNCHANGED outsideProcessing

(* getAnalysisHistory(): a copy of the history *)
GetAnalysisHistory == analysisHistory

(* getAnalysisHistory() returning the field itself *)
HistoryShared_ReturnsField == TRUE

(* the array getAnalysisHistory() returns is the array of the field: not   *)
(* so, [...this.analysisHistory] builds a new one                          *)
HistoryShared == FALSE

(* everything of the scheduler a query must leave alone *)
schedulerVars == <<connVars, probed, wiringVars, monVars, lastFanout,
                   escaped, lastPayload, snapshotResult, commandResult,
                   startResult, processing, now, aiVars>>

(* a collaborator calls getAnalysisHistory() *)
QueryHistory ==
    /\ "monitoring" \in built
    /\ queried' = [queried EXCEPT !.history = GetAnalysisHistory,
                                  !.shared = HistoryShared]
    /\ UNCHANGED schedulerVars

(* a collaborator calls getLastSnapshot() *)
QueryLast ==
    /\ "monitoring" \in built
    /\ queried' = [queried EXCEPT !.last = lastSnapshot]
    /\ UNCHANGED schedulerVars

(* a collaborator calls isActive() *)
QueryActive ==
    /\ "monitoring" \in built
    /\ queried' = [queried EXCEPT !.active = isMonitoring]
    /\ UNCHANGED schedulerVars

(* a collaborator pushes a text of its own onto the list it was returned;  *)
(* the scheduler's array changes with it when it is the same array         *)
MutateReturned(text) ==
    /\ "monitoring" \in built
    /\ queried' = [queried EXCEPT !.history = Append(@, text)]
    /\ IF queried.shared
       THEN analysisHistory' = Append(analysisHistory, text)
       ELSE UNCHANGED analysisHistory
    /\ UNCHANGED <<connVars, probed, wiringVars, isMonitoring,
                   monitoringInterval, timers, lastSnapshot, tasks, nTasks,
                   completed, lastFanout, escaped, lastPayload,
                   snapshotResult, commandResult, startResult, processing,
                   now, aiVars>>

(* time passes *)
ClockStep == DebounceMs \div 2

Tick ==
    /\ now' = now + ClockStep
    /\ UNCHANGED <<connVars, probed, wiringVars, monVars, lastFanout, escaped,
                   lastPayload, snapshotResult, commandResult, startResult,
                   queried, processing, aiVars>>

----------------------------------------------------------------------------
(* AIProvider *)

(* everything outside the AIProvider and the clock *)
deviceVars == <<connVars, probed, wiringVars, monVars, lastFanout, escaped,
                lastPayload, snapshotResult, commandResult, startResult,
                queried, processing>>

(* analyzeImage() with 'github-copilot' and default falling through to    *)
(* the OpenAI case                                                         *)
AnalyzeKind_DefaultToOpenAI ==
    IF provider \in {"anthropic", "google"} THEN provider ELSE "openai"

(* analyzeImage() sending every value the switch does not name to the      *)
(* OpenAI case                                                             *)
AnalyzeKind_UnknownToOpenAI ==
    IF provider \in {"anthropic", "google", DefaultProvider}
    THEN provider ELSE "openai"

(* switch (this.provider) of analyzeImage(): the method it dispatches to *)
AnalyzeKind ==
    CASE provider = "openai" -> "openai"
      [] provider = "anthropic" -> "anthropic"
      [] provider = "google" -> "google"
      [] OTHER -> DefaultProvider

(* switch (this.provider) of generateLVGLCode() *)
GenerateKind ==
    CASE provider = "openai" -> "openai"
      [] provider = "anthropic" -> "anthropic"
      [] provider = "google" -> "google"
      [] OTHER -> DefaultProvider

(* the name each analyzeWith<Provider>() puts in its error messages *)
ProviderName(kind) ==
    CASE kind = "openai" -> "OpenAI"
      [] kind = "anthropic" -> "Anthropic"
      [] kind = "google" -> "Google"

(* the axios.post of each analyzeWith<Provider>(): URL and credential *)
Request(kind, id) ==
    CASE kind = "openai" ->
             [call |-> id, method |-> "POST",
              url |-> "https://api.openai.com/v1/chat/completions",
              authHeader |-> "Authorization",
              authValue |-> "Bearer " \o apiKey]
      [] kind = "anthropic" ->
             [call |-> id, method |-> "POST",
              url |-> "https://api.anthropic.com/v1/messages",
              authHeader |-> "x-api-key",
              authValue |-> apiKey]
      [] kind = "google" ->
             [call |-> id, method |-> "POST",
              url |-> "https://generativelanguage.googleapis.com/v1beta/"
                          \o "models/gemini-pro-vision:generateContent?key="
                          \o apiKey,
              authHeader |-> "",
              authValue |-> ""]

(* analyzeWith<Provider>() without its test of the API key *)
KeyMissing_Unchecked == FALSE

(* if (!this.apiKey) *)
KeyMissing == apiKey = NoKey

(* throw new Error('<Provider> API key not configured') *)
KeyError(kind) ==
    [class |-> "error",
     text |-> ProviderName(kind) \o " API key not configured",
     at |-> -1]

(* the catch block rethrowing the error of axios as it is *)
ApiError_Rethrown(kind, detail) ==
    [class |-> "error", text |-> detail, at |-> -1]

(* throw new Error(`<Provider> API error: ${error}`) *)
ApiError(kind, detail) ==
    [class |-> "error",
     text |-> ProviderName(kind) \o " API error: " \o detail,
     at |-> -1]

(* the text an external provider replied with *)
Reply == [class |-> "text", text |-> "reply", at |-> -1]

(* analyzeWithCopilot(): the canned text, with new Date().toISOString()    *)
(* interpolated after 'Captured at:'                                       *)
CopilotAnalysis(t) ==
    [class |-> "text", text |-> "GitHub Copilot Analysis", at |-> t]

(* generateCodeWithCopilot(): the canned LVGL code *)
CopilotCode ==
    [class |-> "text", text |-> "// LVGL Code Generated by Double Vision",
     at |-> -1]

(* a call that is over *)
Done(id, op, kind, input, result) ==
    [id |-> id, op |-> op, kind |-> kind, input |-> input, at |-> now,
     result |-> result]

(* analyzeImage(snapshot), up to the await of axios.post where it has one *)
AnalyzeImage(img) ==
    /\ nAICalls' = nAICalls + 1
    /\ LET id == nAICalls + 1
           kind == AnalyzeKind
       IN  IF kind = DefaultProvider
           THEN /\ aiDone' = aiDone \cup
                       {Done(id, "analyze", kind, img, CopilotAnalysis(now))}
                /\ UNCHANGED <<aiCalls, posts>>
           ELSE IF KeyMissing
           THEN /\ aiDone' = aiDone \cup
                       {Done(id, "analyze", kind, img, KeyError(kind))}
                /\ UNCHANGED <<aiCalls, posts>>
           ELSE /\ posts' = Append(posts, Request(kind, id))
                /\ aiCalls' = aiCalls \cup
                       {[id |-> id, op |-> "analyze", kind |-> kind,
                         input |-> img]}
                /\ UNCHANGED aiDone
    /\ UNCHANGED <<deviceVars, provider, apiKey, now>>

(* what the await of axios.post can produce *)
Responses == {"200", "200 malformed", "500", "Network Error"}

(* analyzeWith<Provider>(), continuation after axios.post: the text of the *)
(* reply, or the catch block                                               *)
PostReturn(c, resp) ==
    /\ c \in aiCalls
    /\ aiCalls' = aiCalls \ {c}
    /\ aiDone' = aiDone \cup
           {Done(c.id, c.op, c.kind, c.input,
                 IF resp = "200" THEN Reply ELSE ApiError(c.kind, resp))}
    /\ UNCHANGED <<deviceVars, provider, apiKey, nAICalls, posts, now>>

(* generateCodeWith<Provider>(prompt): every one of them returns           *)
(* generateCodeWithCopilot(prompt)                                         *)
GenerateCodeWith(kind) == CopilotCode

(* generateLVGLCode(description) *)
GenerateLVGLCode(description) ==
    /\ nAICalls' = nAICalls + 1
    /\ aiDone' = aiDone \cup
           {Done(nAICalls + 1, "generate", GenerateKind, description,
                 GenerateCodeWith(GenerateKind))}
    /\ UNCHANGED <<deviceVars, provider, apiKey, aiCalls, posts, now>>

----------------------------------------------------------------------------
(* Construction and wiring *)

(* setImageCallback(callback): the field after the call *)
SetImageCallback(cur, cb) == cb

(* new MonitoringService(cameraManager, aiProvider) *)
NewMonitoringService ==
    /\ ~activated
    /\ nConnects = 0
    /\ "monitoring" \notin built
    /\ built' = built \cup {"monitoring"}
    /\ onImageReceived' = SetImageCallback(onImageReceived, "monitoring")
    /\ registered' = Append(registered, "monitoring")
    /\ UNCHANGED <<activated, connVars, probed, monVars, lastFanout, escaped,
                   lastPayload, snapshotResult, commandResult, startResult,
                   queried, processing, now, aiVars>>

(* new CameraViewProvider(extensionUri, cameraManager) *)
NewCameraViewProvider ==
    /\ ~activated
    /\ nConnects = 0
    /\ "view" \notin built
    /\ built' = built \cup {"view"}
    /\ onImageReceived' = SetImageCallback(onImageReceived, "view")
    /\ registered' = Append(registered, "view")
    /\ UNCHANGED <<activated, connVars, probed, monVars, lastFanout, escaped,
                   lastPayload, snapshotResult, commandResult, startResult,
                   queried, processing, now, aiVars>>

(* activate(): the scheduler, then the view, then the auto-connect *)
Activate(cfgIP, p) ==
    /\ ~activated
    /\ built = {}
    /\ activated' = TRUE
    /\ built' = {"monitoring", "view"}
    /\ onImageReceived' =
          SetImageCallback(SetImageCallback(onImageReceived, "monitoring"),
                           "view")
    /\ registered' = <<"monitoring", "view">>
    /\ IF cfgIP # "" /\ cfgIP # DefaultIP
       THEN ConnectBegin(cfgIP, p)
       ELSE UNCHANGED <<connVars, probed>>
    /\ UNCHANGED <<monVars, lastFanout, escaped, lastPayload, snapshotResult,
                   commandResult, startResult, queried, processing, now,
                   aiVars>>

----------------------------------------------------------------------------
Outcomes == {"200", "other", "fail"}

(* room for one more cycle, of at most maxT per behaviour and maxF at a time *)
Room(maxT, maxF) == nTasks < maxT /\ Cardinality(tasks) < maxF

CanStart(maxT) == Room(maxT, MaxInFlight)

(* calls that failed so far *)
Failures == nTasks - Len(completed) - Cardinality(tasks)

(* The connection manager with both subscribers, on-demand capture and     *)
(* every socket event; the scheduler is constructed and never started.     *)
NextConn ==
    \/ \E h \in Hosts \cup {"", DefaultIP}, p \in Ports : Activate(h, p)
    \/ NewMonitoringService
    \/ NewCameraViewProvider
    \/ \E h \in Hosts, p \in Ports : ConnectCommand(h, p)
    \/ \E h \in Hosts, p \in Ports : Connect(h, p)
    \/ \E c \in probes, o \in Outcomes : ProbeDone(c, o)
    \/ Disconnect
    \/ \E s \in 1..Len(sockets) : WsOpen(s)
    \/ \E s \in 1..Len(sockets) : WsMessage(s)
    \/ \E s \in 1..Len(sockets) : WsError(s)
    \/ \E s \in 1..Len(sockets) : WsClose(s)
    \/ CanStart(MaxTasks) /\ TakeSnapshot
    \/ \E t \in tasks, ok \in BOOLEAN : CaptureReturn(t, ok)

SpecConn == Init /\ [][NextConn]_vars

(* The scheduler over one device on the default port: both wirings, both   *)
(* triggers, the backend answering or failing, the clock.                  *)
MonHosts == {"10.0.0.5"}

NextMon ==
    \/ \E h \in MonHosts \cup {DefaultIP} : Activate(h, DefaultPort)
    \/ NewMonitoringService
    \/ \E h \in MonHosts :
          nConnects < MaxMonConnects /\ ConnectCommand(h, DefaultPort)
    \/ \E h \in MonHosts :
          nConnects < MaxMonConnects /\ Connect(h, DefaultPort)
    \/ \E c \in probes, o \in Outcomes : ProbeDone(c, o)
    \/ Disconnect
    \/ \E s \in 1..Len(sockets) : WsOpen(s)
    \/ \E s \in 1..Len(sockets) : CanStart(MaxCycles) /\ WsMessage(s)
    \/ \E s \in 1..Len(sockets) : WsClose(s)
    \/ Start
    \/ Stop
    \/ CanStart(MaxCycles) /\ TimerTick
    \/ \E t \in tasks, ok \in BOOLEAN : CaptureReturn(t, ok)
    \/ \E t \in tasks, ok \in BOOLEAN : AnalyzeReturn(t, ok)
    \/ now < MaxTicks * ClockStep /\ Tick

SpecMon == Init /\ [][NextMon]_vars

(* The history, eleven analyses deep: the scheduler on its own over one    *)
(* connection, both triggers, at most MaxFailures failed calls, the clock  *)
(* standing still.                                                         *)
NextHist ==
    \/ NewMonitoringService
    \/ \E h \in MonHosts : nConnects = 0 /\ Connect(h, DefaultPort)
    \/ \E c \in probes, o \in Outcomes : ProbeDone(c, o)
    \/ \E s \in 1..Len(sockets) : WsOpen(s)
    \/ \E s \in 1..Len(sockets) : Room(MaxAnalyses, MaxOverlap) /\ WsMessage(s)
    \/ Start
    \/ Room(MaxAnalyses, MaxOverlap) /\ TimerTick
    \/ \E t \in tasks : CaptureReturn(t, TRUE)
    \/ \E t \in tasks : Failures < MaxFailures /\ CaptureReturn(t, FALSE)
    \/ \E t \in tasks : AnalyzeReturn(t, TRUE)
    \/ \E t \in tasks : Failures < MaxFailures /\ AnalyzeReturn(t, FALSE)

SpecHist == Init /\ [][NextHist]_vars

(* The AIProvider on its own, under every configuration: analyses and code *)
(* generations, every reply of the provider, the clock.                    *)
NextAI ==
    \/ \E img \in Images : nAICalls < MaxAICalls /\ AnalyzeImage(img)
    \/ \E d \in Descriptions : nAICalls < MaxAICalls /\ GenerateLVGLCode(d)
    \/ \E c \in aiCalls, r \in Responses : PostReturn(c, r)
    \/ now < MaxTicks * ClockStep /\ Tick

SpecAI == InitAI /\ [][NextAI]_vars

(* The operations of the manager over one connection: on-demand captures   *)
(* and commands, answered or failing, around connect, disconnect and the   *)
(* events of the link.                                                     *)
NextOps ==
    \/ NewMonitoringService
    \/ NewCameraViewProvider
    \/ \E h \in MonHosts :
          nConnects < MaxMonConnects /\ Connect(h, DefaultPort)
    \/ \E c \in probes, o \in Outcomes : ProbeDone(c, o)
    \/ Disconnect
    \/ \E s \in 1..Len(sockets) : WsOpen(s)
    \/ \E s \in 1..Len(sockets), data \in Payloads, throws \in BOOLEAN :
          OnMessage(s, data, throws)
    \/ \E s \in 1..Len(sockets) : WsError(s)
    \/ \E s \in 1..Len(sockets) : WsClose(s)
    \/ Room(MaxOps, MaxInFlight) /\ TakeSnapshot
    \/ Room(MaxOps, MaxInFlight) /\ SendCommand
    \/ \E t \in tasks, ok \in BOOLEAN : CaptureReturn(t, ok)
    \/ \E t \in tasks, ok \in BOOLEAN : CommandReturn(t, ok)

SpecOps == Init /\ [][NextOps]_vars

(* a text that no analysis produced *)
ForeignText == 0

(* The scheduler and a collaborator that queries it and writes to the list *)
(* it was returned, over one connection with cycles one at a time.         *)
NextQuery ==
    \/ NewMonitoringService
    \/ \E h \in MonHosts : nConnects = 0 /\ Connect(h, DefaultPort)
    \/ \E c \in probes : ProbeDone(c, "200")
    \/ Start
    \/ Stop
    \/ Room(MaxQueryCycles, MaxOverlap) /\ TimerTick
    \/ \E t \in tasks : CaptureReturn(t, TRUE)
    \/ \E t \in tasks : AnalyzeReturn(t, TRUE)
    \/ QueryHistory
    \/ QueryLast
    \/ QueryActive
    \/ Len(queried.history) < MaxReturned /\ MutateReturned(ForeignText)

SpecQuery == Init /\ [][NextQuery]_vars

----------------------------------------------------------------------------
(* Properties *)

Min(a, b) == IF a < b THEN a ELSE b
LastN(q, n) == SubSeq(q, Len(q) - n + 1, Len(q))
OpenSockets == {s \in 1..Len(sockets) : sockets[s].state = "open"}
Analysing == {t \in tasks : t.stage = "analyze"}
LinkEvent(s) == WsOpen(s) \/ WsMessage(s) \/ WsError(s) \/ WsClose(s)

(* C1: a GET /status probe is only ever issued to a host that is a         *)
(* well-formed IPv4 dotted quad: connect rejects every other host before   *)
(* any network request, on every call path.                                *)
C1_ProbeOnlyValidHosts == \A h \in probed : ValidIP(h)

(* C2: after a successful connect and with no disconnect, no event of the  *)
(* current streaming link (open, message, error, close) makes the manager  *)
(* not connected.                                                          *)
C2_LinkEventsKeepConnected ==
    [][\A s \in 1..Len(sockets) :
          (connected /\ s = ws /\ LinkEvent(s)) => connected']_vars

(* C3: at most one analysis (backend call awaiting its history update) is  *)
(* in progress at any time.                                                *)
C3_SingleFlight == Cardinality(Analysing) <= 1

(* C4: of two pushed snapshots stamped less than 2000 ms apart, at most    *)
(* one is handed to the backend.                                           *)
C4_DebouncePushes ==
    \A t1, t2 \in Analysing :
        (t1 # t2 /\ t1.origin = "push" /\ t2.origin = "push" /\ t1.ts <= t2.ts)
            => t2.ts - t1.ts >= DebounceMs

(* C5: the analysis history never holds more than 10 records.              *)
C5_HistoryBounded == Len(analysisHistory) <= HistoryCap

C5_Witness ==
    /\ Len(completed) > HistoryCap
    /\ Len(analysisHistory) = HistoryCap

(* C6: the history is FIFO: after n successful analyses                    *)
(* getAnalysisHistory() is the last min(n, 10) analysis texts in the order *)
(* in which the analyses completed.                                        *)
C6_HistoryFifo ==
    GetAnalysisHistory = LastN(completed, Min(Len(completed), HistoryCap))

C6_Witness ==
    /\ Len(completed) = HistoryCap + 1
    /\ GetAnalysisHistory[1] = completed[2]
    /\ GetAnalysisHistory[HistoryCap] = completed[HistoryCap + 1]

(* C7: a pushed frame is handed to every subscriber registered so far, in  *)
(* registration order.                                                     *)
C7_FanoutToAll ==
    [][\A s \in 1..Len(sockets) : WsMessage(s) => lastFanout' = registered]_vars

(* C8: in the extension as wired by activate(), with monitoring started, a *)
(* pushed frame the debounce rule does not suppress starts an analysis.    *)
C8_PushTriggerLive ==
    [][\A s \in 1..Len(sockets) :
          (activated /\ isMonitoring /\ ~Debounced(now) /\ WsMessage(s))
              => \E t \in tasks' \ tasks : t.origin = "push" /\ t.ts = now]_vars

(* C9: when the probe of a connect() call fails, the manager ends not      *)
(* connected, the call is over after its one probe, and the error names    *)
(* the host and port that call attempted.                                  *)
C9_ProbeFailure ==
    [][\A c \in probes, o \in {"other", "fail"} :
          ProbeDone(c, o) =>
              /\ ~connected'
              /\ probes' = probes \ {c}
              /\ probed' = probed
              /\ connectError' = [host |-> c.host, port |-> c.port]]_vars

(* C10: the manager never holds more than one open streaming link.         *)
C10_OneOpenLink == Cardinality(OpenSockets) <= 1

(* C11: two connection attempts never overlap: while one connect() awaits  *)
(* its probe, a further connect() is rejected and issues no probe of its   *)
(* own, so at most one probe is ever in flight.                            *)
C11_NoOverlappingConnects == Cardinality(probes) <= 1

(* C12: while the scheduler is stopped no new analysis cycle begins,       *)
(* neither from the periodic timer nor from a pushed frame (cycles already *)
(* in flight may finish), and stop() on a stopped scheduler changes        *)
(* nothing.                                                                *)
C12_NoCycleWhileStopped ==
    [][/\ ~isMonitoring => (nTasks' = nTasks /\ tasks' \subseteq
                               tasks \cup {[t EXCEPT !.stage = "analyze",
                                                     !.ts = now] : t \in tasks})
       /\ (~isMonitoring /\ Stop) => UNCHANGED vars]_vars

(* stopped after cycles have run, with the device connected, the link open *)
(* and the scheduler subscribed: frames and ticks can still arrive         *)
C12_Witness ==
    /\ ~isMonitoring
    /\ nTasks > 0
    /\ connected
    /\ ws \in OpenSockets
    /\ onImageReceived = "monitoring"

(* C13: start() on an inactive scheduler whose manager is not connected    *)
(* fails with the not-connected error and leaves the scheduler inactive    *)
(* with no timer; start() on an active scheduler returns without effect    *)
(* and creates no second timer.                                            *)
C13_StartGuards ==
    [][Start =>
          /\ (~isMonitoring /\ ~connected) =>
                 /\ startResult' = "NotConnected"
                 /\ ~isMonitoring'
                 /\ ~monitoringInterval'
                 /\ timers' = 0
          /\ isMonitoring =>
                 /\ startResult' = "resolved"
                 /\ timers' = 1
                 /\ UNCHANGED <<connVars, wiringVars, monVars>>]_vars

(* a start() that failed on a disconnected manager *)
C13_Witness ==
    /\ startResult = "NotConnected"
    /\ ~connected
    /\ ~isMonitoring
    /\ timers = 0

(* the cycles that ended in a failed capture or a failed backend call *)
FailedCycles ==
    (1..nTasks) \ ({completed[i] : i \in 1..Len(completed)}
                       \cup {t.id : t \in tasks})

(* C14: a failed capture or a failed backend call ends its cycle and       *)
(* nothing else: the history and the last analysed snapshot are unchanged, *)
(* the scheduler stays active and keeps its timer, so later triggers still *)
(* run cycles.                                                             *)
C14_FailureCaught ==
    [][\A t \in tasks :
          (CaptureReturn(t, FALSE) \/ AnalyzeReturn(t, FALSE)) =>
              /\ UNCHANGED <<analysisHistory, lastSnapshot, isMonitoring,
                             monitoringInterval, timers>>
              /\ tasks' = tasks \ {t}
              /\ isMonitoring => timers' = 1]_vars

(* a cycle failed, and a cycle begun after it has been analysed and        *)
(* recorded while the scheduler is still active                            *)
C14_Witness ==
    /\ isMonitoring
    /\ timers = 1
    /\ \E f \in FailedCycles :
          /\ Len(completed) > 0
          /\ completed[Len(completed)] > f
          /\ analysisHistory[Len(analysisHistory)] > f

(* the streaming links that are connecting or open *)
LiveSockets ==
    {s \in 1..Len(sockets) : sockets[s].state \in {"connecting", "open"}}

(* C15: disconnect(), from any state, leaves the manager not connected and *)
(* holding no streaming link, and a second disconnect() changes nothing.   *)
C15_DisconnectReleases ==
    [][Disconnect =>
          /\ ~connected'
          /\ ws' = 0
          /\ LiveSockets' = {}
          /\ (~connected /\ ws = 0) => UNCHANGED vars]_vars

(* the provider values that select an external backend *)
External == {"openai", "anthropic", "google"}

(* C16: with an external backend (openai, anthropic, google) and an empty  *)
(* API key, every analyze call fails with that provider's missing-key      *)
(* error, and the AIProvider has issued no HTTP request.                   *)
C16_MissingCredential ==
    (provider \in External /\ apiKey = NoKey) =>
        /\ posts = <<>>
        /\ aiCalls = {}
        /\ \A d \in aiDone :
              d.op = "analyze" =>
                  /\ d.result.class = "error"
                  /\ d.result.text =
                         ProviderName(provider) \o " API key not configured"

(* analyze calls under openai with no key have failed, no request issued *)
C16_Witness ==
    /\ provider = "openai"
    /\ apiKey = NoKey
    /\ posts = <<>>
    /\ \E d \in aiDone :
          /\ d.op = "analyze"
          /\ d.result.text = "OpenAI API key not configured"

(* the call issued an HTTP request *)
Posted(id) == \E i \in 1..Len(posts) : posts[i].call = id

(* how a call went: one request to the provider, a failure for the missing *)
(* key without a request, or the local template without a request          *)
OutcomeClass(c) ==
    IF Posted(c.id) THEN "request"
    ELSE IF c.result.class = "error" THEN "missing-credential"
    ELSE "local"

(* C17: under one configuration (backend kind, API-key state) a code       *)
(* generation has the same outcome class as an analysis: local template,   *)
(* missing-credential failure, or one request to the selected provider.    *)
C17_SameOutcomeClass ==
    \A a, g \in aiCalls \cup aiDone :
        (a.op = "analyze" /\ g.op = "generate")
            => OutcomeClass(a) = OutcomeClass(g)

(* C18: with the local-default backend, two analyze calls on snapshots     *)
(* with the same content return the same text, whenever they are made.     *)
C18_LocalDeterministic ==
    \A d1, d2 \in aiDone :
        (/\ d1.op = "analyze" /\ d2.op = "analyze"
         /\ d1.kind = DefaultProvider /\ d2.kind = DefaultProvider
         /\ d1.input = d2.input)
            => d1.result = d2.result

(* C19: with the local-default backend selected, neither analyze nor       *)
(* generateInterfaceCode issues a network request, whatever the snapshot,  *)
(* the description and the API key.                                        *)
C19_LocalNoNetwork ==
    provider = DefaultProvider => (posts = <<>> /\ aiCalls = {})

(* local-default with an API key configured: an analysis and a code        *)
(* generation are over and nothing was requested                           *)
C19_Witness ==
    /\ provider = DefaultProvider
    /\ apiKey # NoKey
    /\ posts = <<>>
    /\ \E a, g \in aiDone :
          /\ a.op = "analyze" /\ a.result.class = "text"
          /\ g.op = "generate" /\ g.result.class = "text"

(* the endpoint of each external provider *)
OwnEndpoint ==
    CASE provider = "openai" -> "https://api.openai.com/v1/chat/completions"
      [] provider = "anthropic" -> "https://api.anthropic.com/v1/messages"
      [] provider = "google" ->
             "https://generativelanguage.googleapis.com/v1beta/"
                 \o "models/gemini-pro-vision:generateContent?key=" \o apiKey

(* the requests a call issued *)
PostsOf(id) == {i \in 1..Len(posts) : posts[i].call = id}

C21_CommandOnce ==
    [][/\ SendCommand =>
            IF connected
            THEN /\ nTasks' = nTasks + 1
                 /\ \E t \in tasks' :
                       /\ tasks' = tasks \cup {t}
                       /\ t \notin tasks
                       /\ t.stage = "command"
            ELSE /\ commandResult' = "NotConnected"
                 /\ UNCHANGED <<tasks, nTasks>>
       /\ \A t \in tasks :
              CommandReturn(t, FALSE) =>
                  /\ commandResult' = "CommandFailed"
                  /\ tasks' = tasks \ {t}
                  /\ nTasks' = nTasks]_vars

(* the one request of a command failed and nothing else was sent *)
C21_Witness ==
    /\ commandResult = "CommandFailed"
    /\ nTasks = 1
    /\ tasks = {}

(* C22: when a subscriber throws while handling a pushed Snapshot the      *)
(* exception stays inside the manager's message handler: it does not       *)
(* reach the streaming link, the connection state is unchanged and the     *)
(* link goes on delivering frames.                                         *)
C22_SubscriberIsolated ==
    [][\A s \in 1..Len(sockets), data \in Payloads :
          OnMessage(s, data, TRUE) =>
              /\ escaped' = escaped
              /\ sockets' = sockets
              /\ connected' = connected]_vars

(* C23: a takeSnapshot() or sendCommand() that fails, because the manager  *)
(* is not connected or because its request failed, leaves the connected    *)
(* flag, the target host and port and the streaming link as they were.     *)
C23_FailureScoped ==
    [][(\/ ~connected /\ (TakeSnapshot \/ SendCommand)
        \/ \E t \in tasks :
              \/ t.origin = "command" /\ CaptureReturn(t, FALSE)
              \/ CommandReturn(t, FALSE))
          => UNCHANGED <<connected, ipAddress, port, ws, sockets>>]_vars

(* a capture and a command have failed on a manager that is still          *)
(* connected over its open link                                            *)
C23_Witness ==
    /\ snapshotResult = "CaptureFailed"
    /\ commandResult = "CommandFailed"
    /\ connected
    /\ ws \in OpenSockets

(* C24: the history is read-only to collaborators: writing to the list     *)
(* getAnalysisHistory() returned does not change the scheduler's history,  *)
(* and the queries (history, last snapshot, active) change no state of the *)
(* scheduler; the list returned is the history at the time of the call.    *)
C24_HistoryReadOnly ==
    [][/\ MutateReturned(ForeignText) => UNCHANGED monVars
       /\ (QueryHistory \/ QueryLast \/ QueryActive) => UNCHANGED monVars
       /\ QueryHistory => queried'.history = analysisHistory]_vars

(* a collaborator wrote to the list it was returned after an analysis was  *)
(* recorded, and the scheduler's history holds that analysis alone         *)
C24_Witness ==
    /\ Len(analysisHistory) = 1
    /\ Len(queried.history) = 2
    /\ queried.history[1] = analysisHistory[1]
    /\ queried.history[2] = ForeignText

(* C25: the debounce reference is the snapshot of the analysis that        *)
(* succeeded last. A pushed snapshot that reaches the active scheduler is  *)
(* skipped exactly when a reference exists and the pushed timestamp minus  *)
(* the reference's is below 2000 ms (a difference of exactly 2000 ms and a *)
(* push with no reference are analysed); only a successful analysis moves  *)
(* the reference, to its own snapshot.                                     *)
C25_DebounceReference ==
    [][/\ \A s \in 1..Len(sockets) :
              (WsMessage(s) /\ onImageReceived = "monitoring" /\ isMonitoring)
                  => IF lastSnapshot # NoSnapshot
                          /\ now - lastSnapshot.ts < 2000
                     THEN UNCHANGED <<tasks, nTasks>>
                     ELSE \E t \in tasks' \ tasks :
                             /\ t.origin = "push"
                             /\ t.stage = "analyze"
                             /\ t.ts = now
       /\ \A t \in tasks :
              /\ AnalyzeReturn(t, TRUE) => lastSnapshot' = [ts |-> t.ts]
              /\ AnalyzeReturn(t, FALSE) => lastSnapshot' = lastSnapshot
       /\ lastSnapshot' # lastSnapshot
              => \E t \in tasks : AnalyzeReturn(t, TRUE)]_vars

(* a pushed snapshot stamped exactly 2000 ms after the reference is being  *)
(* analysed                                                                *)
C25_Witness ==
    /\ lastSnapshot # NoSnapshot
    /\ \E t \in tasks :
          /\ t.origin = "push"
          /\ t.stage = "analyze"
          /\ t.ts - lastSnapshot.ts = 2000

(* C26: the periodic trigger is never debounced: a timer tick on an active *)
(* scheduler whose manager is connected requests a capture, and the        *)
(* captured snapshot is sent to the backend, however recent the last       *)
(* analysis is.                                                            *)
C26_TimerNotDebounced ==
    [][/\ (TimerTick /\ isMonitoring /\ connected) =>
              \E t \in tasks' \ tasks :
                  t.origin = "timer" /\ t.stage = "capture"
       /\ \A t \in tasks :
              (t.origin = "timer" /\ CaptureReturn(t, TRUE)) =>
                  [t EXCEPT !.stage = "analyze", !.ts = now] \in tasks']_vars

(* a snapshot captured by the timer less than 2000 ms after the reference  *)
(* is with the backend                                                     *)
C26_Witness ==
    /\ lastSnapshot # NoSnapshot
    /\ \E t \in tasks :
          /\ t.origin = "timer"
          /\ t.stage = "analyze"
          /\ t.ts - lastSnapshot.ts < DebounceMs

(* C27: the manager becomes connected only at the step where the probe of  *)
(* a connect() call returns success; no other operation and no event of    *)
(* the link turns a manager that is not connected into a connected one.    *)
C27_ConnectedOnlyByProbe ==
    [][(~connected /\ connected') =>
          \E c \in probes : ProbeDone(c, "200")]_vars

(* connected again, by a later probe, after a disconnect() closed the      *)
(* link of an earlier connection                                           *)
C27_Witness ==
    /\ connected
    /\ ws # 0
    /\ \E s \in 1..Len(sockets) :
          s # ws /\ sockets[s].state \in {"closing", "closed"}

(* C28: every Snapshot the manager creates carries non-empty image bytes   *)
(* taken from a binary frame: no text message of the streaming link is     *)
(* delivered to the subscriber as a Snapshot, and no empty capture body    *)
(* is returned by takeSnapshot() as one.                                   *)
C28_SnapshotsAreImages ==
    /\ lastPayload \in {"none", "jpeg"}
    /\ snapshotResult # "EmptySnapshot"

(* processAnalysis() applied to analysis texts *)
NextKeywords ==
    \/ \E analysis \in Texts : ProcessAnalysis(analysis)
    \/ WarningAnswered
    \/ CheckLVGLIssues
    \/ NotifyAnalysisUpdate

SpecKeywords == Init /\ [][NextKeywords]_vars

(* keyword occurs in text, letters compared without regard to case *)
SameLetter(a, b) ==
    a = b \/ <<a, b>> \in CasePairs \/ <<b, a>> \in CasePairs

ContainsAnyCase(text, keyword) ==
    \E i \in 0..(Len(text) - Len(keyword)) :
        \A j \in 1..Len(keyword) : SameLetter(text[i + j], keyword[j])

(* C29: every keyword trigger is a case-insensitive substring match: the   *)
(* warning path is taken exactly when the text contains "error" or         *)
(* "problem" in any letter case, and the advisory pass adds the advisory   *)
(* of "memory", "performance" or "style" exactly when the text contains    *)
(* that keyword in any letter case.                                        *)
C29_KeywordsAnyCase ==
    /\ processing.stage # "idle" =>
          (processing.warning <=>
              \/ ContainsAnyCase(processing.text, KwError)
              \/ ContainsAnyCase(processing.text, KwProblem))
    /\ (processing.stage = "notify" /\ LvglTrigger(processing.text)) =>
          \A k \in {KwMemory, KwPerformance, KwStyle} :
              k \in processing.issues <=> ContainsAnyCase(processing.text, k)

(* The AIProvider with what its scheduling guarantees: time passes. A call *)
(* to axios.post is given no timeout option, so nothing on the extension's *)
(* side ends a pending request; its return is up to the provider and the   *)
(* network and carries no fairness condition.                              *)
SpecAILive ==
    /\ InitAI
    /\ [][NextAI]_vars
    /\ WF_vars(now < MaxTicks * ClockStep /\ Tick)

(* C30: every analyze call on an external backend eventually completes,    *)
(* with text or with a backend error, whether or not the provider ever     *)
(* responds.                                                               *)
C30_AnalyzeCompletes ==
    \A id \in 1..MaxAICalls :
        (\E c \in aiCalls : c.id = id /\ c.op = "analyze")
            ~> (\E d \in aiDone : d.id = id)

(* The connection manager with what its scheduling guarantees: the timer   *)
(* of each probe's 5000 ms timeout fires. The device's answer and every    *)
(* event of the streaming link carry no fairness condition.                *)
NextConnLive ==
    \/ NewCameraViewProvider
    \/ \E h \in Hosts : Connect(h, DefaultPort)
    \/ \E c \in probes, o \in Outcomes : ProbeDone(c, o)
    \/ Disconnect
    \/ \E s \in 1..Len(sockets) : WsOpen(s)
    \/ \E s \in 1..Len(sockets) : WsError(s)
    \/ \E s \in 1..Len(sockets) : WsClose(s)

SpecConnLive ==
    /\ Init
    /\ [][NextConnLive]_vars
    /\ \A id \in 1..MaxConnects :
          WF_vars(\E c \in probes : c.call = id /\ ProbeTimeout(c))

(* C31: every connect() call eventually completes, connected or failed,    *)
(* whether or not the device answers the probe and whether or not the      *)
(* streaming link ever opens.                                              *)
C31_ConnectCompletes ==
    \A id \in 1..MaxConnects :
        (\E c \in probes : c.call = id) ~> ~(\E c \in probes : c.call = id)

(* a connect() that completed connected while its streaming link has not   *)
(* opened                                                                  *)
C31_Witness ==
    /\ probes = {}
    /\ connected
    /\ ws # 0
    /\ sockets[ws].state = "connecting"

(* C32: a close or error event of a streaming link that disconnect()       *)
(* closed or a later connect() replaced does not affect the newer          *)
(* connection: it leaves the connected flag as it was.                     *)
C32_StaleEventsIgnored ==
    [][\A s \in 1..Len(sockets) :
          (s # ws /\ (WsClose(s) \/ WsError(s))) =>
              connected' = connected]_vars

(* C33: whenever the manager reports connected, the host and port that     *)
(* takeSnapshot() and sendCommand() address are ones whose probe           *)
(* succeeded: the manager becomes or stays connected only with the target  *)
(* it had, or at the step where the probe of its new target returns        *)
(* success.                                                                *)
C33_TargetProbed ==
    [][connected' =>
          \/ connected /\ ipAddress' = ipAddress /\ port' = port
          \/ \E c \in probes :
                /\ ProbeDone(c, "200")
                /\ c.host = ipAddress'
                /\ c.port = port']_vars

(* C34: while the scheduler is stopped the history and the last-analysed   *)
(* snapshot do not change and no analysis completes, cycles that were in   *)
(* flight when stop() was called included.                                 *)
C34_StoppedIsQuiet ==
    [][(~isMonitoring /\ ~isMonitoring') =>
          /\ analysisHistory' = analysisHistory
          /\ lastSnapshot' = lastSnapshot
          /\ completed' = completed]_vars

(* C35: after disconnect() and until a later connect() succeeds (the       *)
(* manager is not connected and holds no streaming link), no pushed        *)
(* Snapshot is delivered to the subscriber, frames of streaming links      *)
(* opened by earlier connect() calls included.                             *)
C35_NoDeliveryAfterDisconnect ==
    [][\A s \in 1..Len(sockets), data \in Payloads :
          (~connected /\ ws = 0 /\ OnMessage(s, data, FALSE)) =>
              lastFanout' = <<>>]_vars

(* C36: the timestamp of the last-analysed snapshot never decreases: each  *)
(* time it is replaced the new snapshot is stamped no earlier than the     *)
(* previous one, under any interleaving of periodic and pushed cycles.     *)
C36_LastSnapshotMonotonic ==
    [][(lastSnapshot # NoSnapshot /\ lastSnapshot' # lastSnapshot) =>
          lastSnapshot'.ts >= lastSnapshot.ts]_vars

(* C37: the periodic timer exists exactly when isActive() is true, and at  *)
(* most one timer is live, after any sequence of start() and stop() calls, *)
(* failed start() calls included.                                          *)
C37_TimerIffActive ==
    /\ timers = (IF isMonitoring THEN 1 ELSE 0)
    /\ monitoringInterval <=> isMonitoring

(* stopped again after a start() that succeeded: no timer is left *)
C37_Witness ==
    /\ startResult = "resolved"
    /\ ~isMonitoring
    /\ timers = 0
    /\ nTasks > 0

(* The scheduler started once, during the first connection, while the      *)
(* connection is lost and made again by connect() calls that follow one    *)
(* another.                                                                *)
NextResume ==
    \/ NewMonitoringService
    \/ \E h \in MonHosts : probes = {} /\ Connect(h, DefaultPort)
    \/ \E c \in probes, o \in Outcomes : ProbeDone(c, o)
    \/ Disconnect
    \/ \E s \in 1..Len(sockets) : WsOpen(s)
    \/ \E s \in 1..Len(sockets) : WsError(s)
    \/ \E s \in 1..Len(sockets) : WsClose(s)
    \/ nConnects = 1 /\ Start
    \/ Room(MaxResumeCycles, MaxOverlap) /\ TimerTick
    \/ \E t \in tasks, ok \in BOOLEAN : CaptureReturn(t, ok)
    \/ \E t \in tasks, ok \in BOOLEAN : AnalyzeReturn(t, ok)

SpecResume == Init /\ [][NextResume]_vars

(* C38: while monitoring is active and the manager is not connected, a     *)
(* periodic tick issues no capture request and no backend call and leaves  *)
(* the history unchanged; monitoring stays active with its timer, and a    *)
(* tick begins a cycle again as soon as the manager is connected, with no  *)
(* new start().                                                            *)
C38_IdleWhileDisconnected ==
    /\ [][(TimerTick /\ isMonitoring /\ ~connected) =>
             /\ tasks' = tasks
             /\ nTasks' = nTasks
             /\ analysisHistory' = analysisHistory
             /\ isMonitoring'
             /\ timers' = timers]_vars
    /\ [](isMonitoring => timers > 0)
    /\ [][(TimerTick /\ isMonitoring /\ connected) =>
             \E t \in tasks' \ tasks :
                 t.origin = "timer" /\ t.stage = "capture"]_vars

(* monitoring started during the first connection is still active after    *)
(* that connection's link was lost and a second connect() succeeded, and a *)
(* periodic cycle is in flight                                             *)
C38_Witness ==
    /\ isMonitoring
    /\ connected
    /\ nConnects = 2
    /\ probes = {}
    /\ sockets[1].state \in {"closing", "closed", "errored"}
    /\ \E t \in tasks : t.origin = "timer" /\ t.stage = "capture"

(* C39: under any provider value other than openai, anthropic and google,  *)
(* analyze and generateInterfaceCode return the local template, issue no   *)
(* network request and never fail for a missing API key.                   *)
C39_UnknownProviderIsLocal ==
    provider \notin External =>
        /\ posts = <<>>
        /\ aiCalls = {}
        /\ \A d \in aiDone :
              /\ d.kind = DefaultProvider
              /\ d.result = IF d.op = "analyze"
                            THEN CopilotAnalysis(d.at) ELSE CopilotCode

(* a provider value the switch does not name and no API key: an analysis   *)
(* and a code generation are over, both with the local template            *)
C39_Witness ==
    /\ provider \notin External \cup {DefaultProvider}
    /\ apiKey = NoKey
    /\ posts = <<>>
    /\ \E a, g \in aiDone :
          /\ a.op = "analyze" /\ a.result.text = "GitHub Copilot Analysis"
          /\ g.op = "generate" /\ g.result = CopilotCode

====
